---- MODULE Spec2Model ----
(***************************************************************************)
(* The cooperative runtime of ceros: the thread table and round-robin      *)
(* scheduler of src/runtime/mod.rs, the stack guard of                     *)
(* src/runtime/internal.rs and the competition-status tick loop of         *)
(* src/system/mod.rs.                                                      *)
(*                                                                         *)
(* The thread table lives in a RefCell.  Its borrow flag is part of the    *)
(* state: context_switch takes a mutable borrow and switches stacks while  *)
(* the guard is still alive, so the flag stays at "writing" until the      *)
(* suspended thread is resumed and leaves context_switch.                  *)
(*                                                                         *)
(* A panic (index out of bounds, RefCell borrow failure, the stack guard)  *)
(* terminates the program: fault records which one happened.               *)
(***************************************************************************)
EXTENDS Integers, Sequences, FiniteSets, TLC

MAX_THREADS == 8

\* Number of distinct values of the competition-status oracle.
NumModes == 3

\* Number of entry functions other than the user program's entry point.
NumAux == 1

Slots == 0 .. (MAX_THREADS - 1)

Modes == 1 .. NumModes

\* Entry points are numbered: the user program's entry point first.
UserEntry == 1

\* The entry functions that threads hand to spawn themselves.
AuxEntries == 2 .. (NumAux + 1)

\* Marks a thread that was never initialized with an entry point.
NoEntry == 0

VARIABLES
    threads,      \* Runtime.threads: slot -> [state, entry, sp]
    current,      \* Runtime.current
    borrow,       \* borrow flag of the RefCell around threads: 0 unused, -1 writing
    fault,        \* "none", or the panic that terminated the program
    mode,         \* value the competition-status oracle returns now
    comp_status,  \* os_init's local comp_status (0 before it is first read)
    kpc,          \* position of the code running in slot 0: os_init at "boot",
                  \* "poll" or "yield", or ("direct") code that drives the
                  \* public Runtime API itself and never reads the oracle
    unseen,       \* the oracle changed since os_init last read it
    op            \* the last runtime operation and its outcome (chg: the
                  \* oracle had changed since the previous poll)

vars == <<threads, current, borrow, fault, mode, comp_status, kpc, unseen, op>>

rtvars == <<threads, current, borrow, fault>>

----------------------------------------------------------------------------
(* Thread (src/runtime/thread.rs is not part of the sources at hand; the   *)
(* descriptor follows the Task Descriptor of the specification).           *)

\* Thread::new / Default: a free slot.
ThreadNew == [state |-> "Available", entry |-> NoEntry, sp |-> "none"]

\* Thread::initialize: a fresh frame that starts at entry on first resume.
Initialize(t, entry) == [state |-> "Ready", entry |-> entry, sp |-> "entry"]

\* kill_task: the slot is forced to Available, its stack is abandoned.
KillThread(t) == [t EXCEPT !.state = "Available"]

----------------------------------------------------------------------------
(* Runtime (src/runtime/mod.rs)                                            *)

\* Runtime::new: slot 0 is the OS thread and is Running, current is 0.
RuntimeNew ==
    [i \in Slots |-> IF i = 0 THEN [ThreadNew EXCEPT !.state = "Running"]
                              ELSE ThreadNew]

Some(i) == [tag |-> "Some", idx |-> i]
None == [tag |-> "None", idx |-> MAX_THREADS]
IndexPanic == [tag |-> "IndexPanic", idx |-> MAX_THREADS]
BorrowPanic == [tag |-> "BorrowPanic", idx |-> MAX_THREADS]

\* The wrap test of get_next's scan index (mod.rs:93).
GetNextWrap(i, len) == IF i > len THEN 0 ELSE i

RECURSIVE GetNextScan(_, _, _)
\* A pass of get_next's loop that also takes a slot whose thread was killed.
GetNextAtTakesKilled(th, cur, j) ==
    IF j \notin DOMAIN th THEN IndexPanic
    ELSE IF th[j].state = "Ready" THEN Some(j)
    ELSE IF th[j].state = "Available" /\ th[j].entry # NoEntry THEN Some(j)
    ELSE IF th[j].state = "Running" THEN None
    ELSE IF j = cur THEN None
    ELSE GetNextScan(th, cur, j)

\* One pass of the loop of get_next with the scan index already advanced
\* to j: the indexing threads[j], the match and the test against current.
GetNextAt(th, cur, j) ==
    IF j \notin DOMAIN th THEN IndexPanic
    ELSE IF th[j].state = "Ready" THEN Some(j)
    ELSE IF th[j].state = "Running" THEN None
    ELSE IF j = cur THEN None
    ELSE GetNextScan(th, cur, j)

\* The loop of get_next, entered with scan index i.
GetNextScan(th, cur, i) ==
    CHOOSE r \in {GetNextAt(th, cur, j) : j \in {GetNextWrap(i + 1, MAX_THREADS)}} : TRUE

RECURSIVE GetNextPasses(_, _, _, _)
\* The number of passes the loop of get_next makes when entered with scan
\* index i, n passes having been made; the count stops at MAX_THREADS + 1.
GetNextPasses(th, cur, i, n) ==
    IF n > MAX_THREADS THEN n
    ELSE LET j == GetNextWrap(i + 1, MAX_THREADS)
         IN  IF j \notin DOMAIN th THEN n + 1
             ELSE IF th[j].state \in {"Ready", "Running"} THEN n + 1
             ELSE IF j = cur THEN n + 1
             ELSE GetNextPasses(th, cur, j, n + 1)

\* get_next: threads.borrow() panics while the table is mutably borrowed.
GetNext(th, cur, bf) ==
    IF bf < 0 THEN BorrowPanic ELSE GetNextScan(th, cur, cur)

\* A wrap of spawn's scan index that steps over the kernel slot.
SpawnWrapSkipsKernel(pos, len) == IF pos >= len THEN 1 ELSE pos

\* The wrap test of spawn's scan index (mod.rs:133).
SpawnWrap(pos, len) == IF pos >= len THEN 0 ELSE pos

RECURSIVE SpawnScan(_, _, _)
\* A pass of spawn's loop that takes the slot without testing its state.
SpawnAtAnyState(th, cur, p) ==
    IF p = cur THEN None ELSE Some(p)

\* One pass of the loop of spawn with the scan index already advanced to p.
SpawnAt(th, cur, p) ==
    IF p = cur THEN None
    ELSE IF th[p].state = "Available" THEN Some(p)
    ELSE SpawnScan(th, cur, p)

\* The loop of spawn, entered with scan index pos.
SpawnScan(th, cur, pos) ==
    CHOOSE r \in {SpawnAt(th, cur, p) : p \in {SpawnWrap(pos + 1, MAX_THREADS)}} : TRUE

RECURSIVE SpawnPasses(_, _, _, _)
\* The number of passes the loop of spawn makes when entered with scan
\* index pos, n passes having been made; the count stops at MAX_THREADS + 1.
SpawnPasses(th, cur, pos, n) ==
    IF n > MAX_THREADS THEN n
    ELSE LET p == SpawnWrap(pos + 1, MAX_THREADS)
         IN  IF p = cur THEN n + 1
             ELSE IF th[p].state = "Available" THEN n + 1
             ELSE SpawnPasses(th, cur, p, n + 1)

\* The state of the runtime as one value, for composing operations.
Rt(th, cur, bf, ft) == [threads |-> th, current |-> cur, borrow |-> bf, fault |-> ft]

RtNow == Rt(threads, current, borrow, fault)

Panic(rt, what) == [rt EXCEPT !.fault = what]

\* spawn: threads.borrow_mut() panics unless the flag is 0; the guard is
\* dropped on return.
SpawnSlot(rt) ==
    IF rt.borrow # 0 THEN BorrowPanic
    ELSE SpawnScan(rt.threads, rt.current, rt.current)

\* A spawn that hands the processor to the thread it has just initialized.
SpawnOpSwitches(rt, entry) ==
    LET s == SpawnSlot(rt)
    IN  IF s.tag = "BorrowPanic" THEN Panic(rt, "borrow")
        ELSE IF s.tag = "None" THEN rt
        ELSE [rt EXCEPT !.threads[s.idx] = Initialize(rt.threads[s.idx], entry),
                        !.current = s.idx]

SpawnOp(rt, entry) ==
    LET s == SpawnSlot(rt)
    IN  IF s.tag = "BorrowPanic" THEN Panic(rt, "borrow")
        ELSE IF s.tag = "None" THEN rt
        ELSE [rt EXCEPT !.threads[s.idx] = Initialize(rt.threads[s.idx], entry)]

\* How a call of spawn ended: a slot was initialized, the scan came back to
\* the caller's slot, or borrow_mut panicked.  (spawn itself returns nothing.)
SpawnOutcome(rt) ==
    LET s == SpawnSlot(rt)
    IN  IF s.tag = "BorrowPanic" THEN "panic"
        ELSE IF s.tag = "None" THEN "full" ELSE "spawned"

\* context_switch that forgets to mark the thread it leaves as Ready.
ContextSwitchKeepsRunning(rt, next) ==
    [rt EXCEPT !.current = next,
               !.threads = [rt.threads EXCEPT ![next].state = "Running",
                                              ![rt.current].sp = "saved"],
               !.borrow = -1]

\* context_switch that marks the threads but does not store the new current.
ContextSwitchKeepsCurrent(rt, next) ==
    [rt EXCEPT !.threads = [rt.threads EXCEPT ![rt.current].state = "Ready",
                                              ![rt.current].sp = "saved",
                                              ![next].state = "Running"],
               !.borrow = -1]

\* context_switch: store current, borrow_mut, mark the two threads, switch
\* stacks.  The RefMut stays on the suspended thread's stack; a thread that
\* is resumed inside context_switch returns from it and drops its own.
ContextSwitch(rt, next) ==
    IF rt.borrow # 0 THEN Panic([rt EXCEPT !.current = next], "borrow")
    ELSE LET cur == rt.current
             th1 == [rt.threads EXCEPT ![cur].state = "Ready"]
             th2 == [th1 EXCEPT ![next].state = "Running"]
             th3 == [th2 EXCEPT ![cur].sp = "saved"]
         IN  [rt EXCEPT !.current = next,
                        !.threads = th3,
                        !.borrow = IF rt.threads[next].sp = "saved" THEN 0 ELSE -1]

\* yield_next
YieldOp(rt) ==
    LET n == GetNext(rt.threads, rt.current, rt.borrow)
    IN  IF n.tag = "BorrowPanic" THEN Panic(rt, "borrow")
        ELSE IF n.tag = "IndexPanic" THEN Panic(rt, "index")
        ELSE IF n.tag = "None" THEN rt
        ELSE ContextSwitch(rt, n.idx)

\* kill_task(i): the slot is forced to Available.
KillOp(rt, i) ==
    IF rt.fault # "none" THEN rt
    ELSE [rt EXCEPT !.threads[i] = KillThread(rt.threads[i])]

\* A guard that returns to its caller instead of panicking.
GuardReturns(rt) == rt

\* guard: reached when an entry function returns.
Guard(rt) == Panic(rt, "guard")

----------------------------------------------------------------------------
(* os_init (src/system/mod.rs)                                             *)

RECURSIVE KillEvery(_, _)
\* The kill loop without its test against the current task.
KillEvery(rt, i) ==
    IF i >= MAX_THREADS THEN rt
    ELSE CHOOSE r \in {KillEvery(k, i + 1) : k \in {KillOp(rt, i)}} : TRUE

\* A kill loop that kills the user task in slot 1 and nothing else.
KillUserOnly(rt, i) ==
    IF i > 1 \/ rt.current = 1 THEN rt ELSE KillOp(rt, 1)

RECURSIVE KillOthers(_, _)
\* for i in 0..MAX_TASKS { if i != rt.current_task() { rt.kill_task(i) } },
\* from index i on.
KillOthers(rt, i) ==
    IF i >= MAX_THREADS THEN rt
    ELSE CHOOSE r \in {KillOthers(k, i + 1) :
                         k \in {IF i # rt.current THEN KillOp(rt, i) ELSE rt}} : TRUE

RECURSIVE KillCalls(_, _)
\* The indices, from i on, on which the kill loop calls kill_task.
KillCalls(rt, i) ==
    IF i >= MAX_THREADS THEN {}
    ELSE (IF i # rt.current THEN {i} ELSE {}) \cup KillCalls(rt, i + 1)

\* A restart that kills but does not spawn the user task again.
RestartWithoutSpawn(rt) == KillOthers(rt, 0)

\* The body of `if new_comp_status != comp_status`, after the assignment.
Restart(rt) ==
    LET k == KillOthers(rt, 0)
    IN  IF k.fault # "none" THEN k ELSE SpawnOp(k, UserEntry)

\* A test that restarts on every tick.
ModeChangedAlways(new, old) == TRUE

\* A test that restarts when the polled value is the recorded one.
ModeChangedInverted(new, old) == new = old

\* The test that decides a restart (mod.rs:49).
ModeChanged(new, old) == new # old

----------------------------------------------------------------------------
Halted == fault # "none"

SetRt(rt) ==
    /\ threads' = rt.threads
    /\ current' = rt.current
    /\ borrow' = rt.borrow
    /\ fault' = rt.fault

Outcome(rt, ok) == IF rt.fault # "none" THEN "panic" ELSE ok

Init ==
    /\ threads = RuntimeNew
    /\ current = 0
    /\ borrow = 0
    /\ fault = "none"
    /\ comp_status = 0
    /\ \/ kpc = "boot" /\ mode \in Modes
       \/ kpc = "direct" /\ mode = 1
    /\ unseen = FALSE
    /\ op = [name |-> "new", slot |-> 0, ret |-> "ok", chg |-> FALSE]

\* The code running now is free to call the runtime: any thread but the one
\* in slot 0 when that one runs os_init.
FreeCaller == ~Halted /\ (current # 0 \/ kpc = "direct")

\* A boot that reads the status but does not spawn the user task.
BootWithoutSpawn ==
    /\ ~Halted /\ current = 0 /\ kpc = "boot"
    /\ op' = [name |-> "boot", slot |-> MAX_THREADS, ret |-> "ok", chg |-> FALSE]
    /\ comp_status' = mode
    /\ unseen' = FALSE
    /\ kpc' = "poll"
    /\ UNCHANGED <<rtvars, mode>>

\* os_init up to its loop: spawn the user task, read the status.
Boot ==
    /\ ~Halted /\ current = 0 /\ kpc = "boot"
    /\ LET rt == SpawnOp(RtNow, UserEntry)
       IN  /\ SetRt(rt)
           /\ op' = [name |-> "boot", slot |-> SpawnSlot(RtNow).idx,
                     ret |-> Outcome(rt, "ok"), chg |-> FALSE]
    /\ comp_status' = mode
    /\ unseen' = FALSE
    /\ kpc' = "poll"
    /\ UNCHANGED mode

\* A pass of the loop that restarts the user task but does not record the
\* value it has polled.
TickForgetsStatus ==
    /\ ~Halted /\ current = 0 /\ kpc = "poll"
    /\ IF ModeChanged(mode, comp_status)
       THEN LET rt == Restart(RtNow)
            IN  /\ SetRt(rt)
                /\ op' = [name |-> "tick", slot |-> MAX_THREADS,
                          ret |-> Outcome(rt, "restart"), chg |-> unseen]
       ELSE /\ UNCHANGED rtvars
            /\ op' = [name |-> "tick", slot |-> MAX_THREADS, ret |-> "same",
                      chg |-> unseen]
    /\ unseen' = FALSE
    /\ kpc' = "yield"
    /\ UNCHANGED <<mode, comp_status>>

\* A pass of the loop that goes back to the poll without yielding when it
\* has restarted the user task.
TickSkipsYield ==
    /\ ~Halted /\ current = 0 /\ kpc = "poll"
    /\ IF ModeChanged(mode, comp_status)
       THEN LET rt == Restart(RtNow)
            IN  /\ SetRt(rt)
                /\ comp_status' = mode
                /\ op' = [name |-> "tick", slot |-> MAX_THREADS,
                          ret |-> Outcome(rt, "restart"), chg |-> unseen]
                /\ kpc' = "poll"
       ELSE /\ UNCHANGED <<rtvars, comp_status>>
            /\ op' = [name |-> "tick", slot |-> MAX_THREADS, ret |-> "same",
                      chg |-> unseen]
            /\ kpc' = "yield"
    /\ unseen' = FALSE
    /\ UNCHANGED mode

\* One pass of the loop up to its yield.
Tick ==
    /\ ~Halted /\ current = 0 /\ kpc = "poll"
    /\ IF ModeChanged(mode, comp_status)
       THEN LET rt == Restart(RtNow)
            IN  /\ SetRt(rt)
                /\ comp_status' = mode
                /\ op' = [name |-> "tick", slot |-> MAX_THREADS,
                          ret |-> Outcome(rt, "restart"), chg |-> unseen]
       ELSE /\ UNCHANGED <<rtvars, comp_status>>
            /\ op' = [name |-> "tick", slot |-> MAX_THREADS, ret |-> "same",
                      chg |-> unseen]
    /\ unseen' = FALSE
    /\ kpc' = "yield"
    /\ UNCHANGED mode

\* The yield that ends the pass; the loop continues when slot 0 is resumed.
KernelYield ==
    /\ ~Halted /\ current = 0 /\ kpc = "yield"
    /\ LET rt == YieldOp(RtNow)
       IN  /\ SetRt(rt)
           /\ op' = [name |-> "yield", slot |-> current,
                     ret |-> Outcome(rt, IF rt.current = current THEN "stay" ELSE "switch"),
                     chg |-> FALSE]
    /\ kpc' = "poll"
    /\ UNCHANGED <<mode, comp_status, unseen>>

Spawn(entry) ==
    /\ FreeCaller
    /\ LET rt == SpawnOp(RtNow, entry)
       IN  /\ SetRt(rt)
           /\ op' = [name |-> "spawn", slot |-> SpawnSlot(RtNow).idx,
                     ret |-> SpawnOutcome(RtNow), chg |-> FALSE]
    /\ UNCHANGED <<mode, comp_status, kpc, unseen>>

YieldNext ==
    /\ FreeCaller
    /\ LET rt == YieldOp(RtNow)
       IN  /\ SetRt(rt)
           /\ op' = [name |-> "yield", slot |-> current,
                     ret |-> Outcome(rt, IF rt.current = current THEN "stay" ELSE "switch"),
                     chg |-> FALSE]
    /\ UNCHANGED <<mode, comp_status, kpc, unseen>>

\* kill_task(i) within its contract: not the caller, not the kernel slot.
Kill(i) ==
    /\ FreeCaller
    /\ i # current /\ i # 0
    /\ LET rt == KillOp(RtNow, i)
       IN  /\ SetRt(rt)
           /\ op' = [name |-> "kill", slot |-> i, ret |-> Outcome(rt, "ok"), chg |-> FALSE]
    /\ UNCHANGED <<mode, comp_status, kpc, unseen>>

\* The entry function of the running thread returns into the guard.
TaskReturn ==
    /\ ~Halted
    /\ threads[current].entry # NoEntry
    /\ SetRt(Guard(RtNow))
    /\ op' = [name |-> "return", slot |-> current, ret |-> "panic", chg |-> FALSE]
    /\ UNCHANGED <<mode, comp_status, kpc, unseen>>

\* The field controller changes the competition status.
OracleChange ==
    /\ kpc # "direct"
    /\ \E m \in Modes \ {mode} : mode' = m
    /\ unseen' = TRUE
    /\ UNCHANGED <<rtvars, comp_status, kpc, op>>

Next ==
    \/ Boot
    \/ Tick
    \/ KernelYield
    \/ \E e \in AuxEntries : Spawn(e)
    \/ YieldNext
    \/ \E i \in Slots : Kill(i)
    \/ TaskReturn
    \/ OracleChange

Spec == Init /\ [][Next]_vars

\* Cooperative runs: no entry function returns, the kernel loop runs on,
\* and every running thread calls yield_next again and again.
NextCoop ==
    \/ Boot
    \/ Tick
    \/ KernelYield
    \/ \E e \in AuxEntries : Spawn(e)
    \/ YieldNext
    \/ \E i \in Slots : Kill(i)
    \/ OracleChange

FairSpec ==
    /\ Init /\ [][NextCoop]_vars
    /\ WF_vars(Boot \/ Tick \/ KernelYield \/ YieldNext)

\* Slot i of a table that is given rather than built: free, or holding a
\* thread that is Ready or marked Running and has not run yet: the kernel
\* thread in slot 0, the user task in slot 1, threads spawned by threads in
\* the other slots.
GivenThread(i, st) ==
    IF st = "Available" THEN ThreadNew
    ELSE IF i = 0 THEN [ThreadNew EXCEPT !.state = st]
    ELSE Initialize([ThreadNew EXCEPT !.state = st],
                    IF i = 1 THEN UserEntry ELSE CHOOSE e \in AuxEntries : TRUE)

\* get_next, spawn and the restart of os_init as functions of the table
\* and of current: the runtime is handed any current and any table of
\* Available, Ready and Running slots in which the current slot is Running
\* and at most one other slot is (the scheduler invariant violation a scan
\* can observe).  The code that runs calls yield_next and spawn, or is
\* os_init in slot 0 at the top of its loop.
TableInit ==
    /\ current \in Slots
    /\ \E st \in [Slots -> {"Available", "Ready", "Running"}] :
          /\ st[current] = "Running"
          /\ Cardinality({i \in Slots : st[i] = "Running"}) <= 2
          /\ threads = [i \in Slots |->
                          [GivenThread(i, st[i]) EXCEPT !.state = st[i]]]
    /\ borrow = 0
    /\ fault = "none"
    /\ \/ kpc = "direct" /\ mode = 1 /\ comp_status = 0
       \/ kpc = "poll" /\ current = 0 /\ mode \in Modes /\ comp_status = 1
    /\ unseen = FALSE
    /\ op = [name |-> "new", slot |-> 0, ret |-> "ok", chg |-> FALSE]

TableNext ==
    \/ YieldNext
    \/ \E e \in AuxEntries : Spawn(e)
    \/ Tick
    \/ KernelYield

TableSpec == TableInit /\ [][TableNext]_vars

----------------------------------------------------------------------------
(* Properties                                                              *)

Running == {i \in Slots : threads[i].state = "Running"}

OtherReady == {i \in Slots \ {current} : threads[i].state = "Ready"}

OtherAvailable == {i \in Slots \ {current} : threads[i].state = "Available"}

\* Distance from slot c forward to slot i, going round the table.
Dist(c, i) == (i - c) % MAX_THREADS

\* The first slot of set S met when going round the table from just after c.
FirstAfter(c, S) == CHOOSE i \in S : \A j \in S : Dist(c, i) <= Dist(c, j)

\* A step that is a call of yield_next by the running thread.
YieldStep == YieldNext \/ KernelYield

\* A step that is a call of spawn by a thread.
SpawnStep == \E e \in AuxEntries : Spawn(e)

\* C1: in every reachable state exactly one slot of the table is Running.
C1_SingleRunner == Cardinality(Running) = 1

\* C1 witness: a context switch has happened and another thread runs.
C1_Witness == op.name = "yield" /\ op.ret = "switch" /\ current # 0

\* C2: slot 0 is never Available.
C2_KernelSlotNeverAvailable == threads[0].state # "Available"

\* C2 witness: the kill loop of a restart has run over a table in which
\* slot 0 is the caller.
C2_Witness ==
    /\ op.name = "tick" /\ op.ret = "restart"
    /\ threads[0].state = "Running"

\* C3: a yield_next made while no other slot is Ready is a no-op: the
\* table, current and the liveness of the program are unchanged.
C3_EmptyYieldNoOp ==
    [][(YieldStep /\ OtherReady = {}) => UNCHANGED rtvars]_vars

\* C4: round robin.  Each yield_next made while other threads are Ready
\* hands the processor to the first Ready slot in ascending circular order
\* after the caller, which is what makes k yields of k runnable threads
\* visit every one of them once in that order.
C4_RoundRobin ==
    [][(YieldStep /\ OtherReady # {}) =>
          /\ fault' = "none"
          /\ current' = FirstAfter(current, OtherReady)
          /\ threads'[current'].state = "Running"
          /\ threads'[current].state = "Ready"]_vars

\* The program was stopped by a call other than yield_next: the running
\* thread then never came to call yield_next again.
StoppedOutsideYield == fault # "none" /\ op.name # "yield"

\* C5: if every running thread keeps calling yield_next, every thread that
\* is Ready eventually stops being Ready: it runs, or it was killed.
C5_NoStarvation ==
    \A i \in Slots :
        (threads[i].state = "Ready") ~>
            (threads[i].state # "Ready" \/ StoppedOutsideYield)

\* C6: a spawn made while every slot but the caller's is occupied leaves
\* the table and current unchanged and does not stop the program.
C6_TableFull ==
    [][(SpawnStep /\ OtherAvailable = {}) => UNCHANGED rtvars]_vars

\* C7: a spawn made while some other slot is Available initializes the
\* first Available slot in circular order after the caller, which is
\* neither the caller's slot nor slot 0.
C7_SpawnSelection ==
    [][(SpawnStep /\ OtherAvailable # {}) =>
          LET s == FirstAfter(current, OtherAvailable)
          IN  /\ s # current /\ s # 0
              /\ threads'[s].state = "Ready"
              /\ \A i \in Slots \ {s} : threads'[i] = threads[i]]_vars

\* The table right after a restart: the kernel in slot 0, a fresh user
\* task in slot 1, nothing else alive.
FreshUserTask(t) == t.state = "Ready" /\ t.entry = UserEntry /\ t.sp = "entry"

\* C8: a tick that finds the oracle's mode different from the recorded one
\* while a user task is alive kills it and spawns a fresh task bound to the
\* user entry point, which is Ready when the tick reaches its yield.
C8_LifecycleRestart ==
    [][(Tick /\ mode # comp_status /\ threads[1].state # "Available") =>
          /\ FreshUserTask(threads'[1])
          /\ \A i \in Slots \ {0, 1} : threads'[i].state = "Available"
          /\ threads'[0].state = "Running"
          /\ comp_status' = mode
          /\ fault' = "none"
          /\ kpc' = "yield"]_vars

\* C8 witness: a restart has just been done and the tick is at its yield.
C8_Witness ==
    /\ op.name = "tick" /\ op.ret = "restart" /\ kpc = "yield"
    /\ FreshUserTask(threads[1])

C10_FatalGuard ==
    [][/\ TaskReturn => fault' = "guard"
       /\ fault = "guard" =>
            UNCHANGED <<threads, current, borrow, fault, comp_status, kpc, op>>]_vars

\* C10 witness: an entry function has returned.
C10_Witness == fault = "guard" /\ op.name = "return"

\* C11: current and the identity of the Running slot change only in a
\* yield_next whose get_next found a Ready target; spawn, kill, the tick's
\* poll and restart, and the oracle leave them alone.
C11_OnlyYieldTransfers ==
    [][(\/ current' # current
        \/ {i \in Slots : threads'[i].state = "Running"} # Running) =>
          /\ YieldStep
          /\ GetNext(threads, current, borrow).tag = "Some"]_vars

\* C11 witness: a thread has spawned another one and is still the one
\* that runs.
C11_Witness ==
    /\ op.name = "spawn" /\ op.ret = "spawned"
    /\ threads[op.slot].state = "Ready"
    /\ Running = {current}

\* C12: once os_init has built the runtime and spawned the user task, and
\* until its first yield, slot 0 is the Running kernel task, current is 0,
\* slot 1 is the one Ready slot and is bound to the user entry point, and
\* every other slot is Available.  os_init never leaves its loop: slot 0's
\* code stays at the poll or at the yield.
C12_BootContract ==
    /\ (kpc \in {"poll", "yield"} /\ op.name \in {"boot", "tick"}) =>
          /\ current = 0
          /\ threads[0].state = "Running"
          /\ fault = "none"
          /\ \E u \in Slots \ {0} :
                /\ FreshUserTask(threads[u])
                /\ \A i \in Slots \ {0, u} : threads[i].state = "Available"
    /\ op.name # "new" => kpc \in {"poll", "yield", "direct"}

\* C12 witness: os_init has booted and has not yet made a tick.
C12_Witness ==
    /\ op.name = "boot" /\ kpc = "poll"
    /\ FreshUserTask(threads[1])

\* C13: whatever the table and current are, the scan of get_next returns
\* the first Ready slot after current in circular order, and none when no
\* other slot is Ready.
C13_NextReadyResult ==
    LET n == GetNextScan(threads, current, current)
    IN  IF OtherReady = {} THEN n = None
        ELSE n = Some(FirstAfter(current, OtherReady))

SpawnedEffect(entry) ==
    /\ \E s \in Slots :
          /\ threads[s].state = "Available"
          /\ threads'[s].state = "Ready"
          /\ threads'[s].entry = entry
          /\ \A i \in Slots \ {s} : threads'[i] = threads[i]
    /\ current' = current
    /\ threads'[current].state = "Running"
    /\ fault' = "none"

\* C15: a spawn that finds a slot changes exactly that slot, which was
\* Available, to Ready and bound to the given entry; a spawn that finds
\* none changes no slot; current is unchanged either way.
C15_SpawnEffect ==
    [][/\ \A e \in AuxEntries :
            Spawn(e) => IF op'.ret = "spawned" THEN SpawnedEffect(e)
                        ELSE threads' = threads /\ current' = current
       /\ Boot => IF op'.slot \in Slots THEN SpawnedEffect(UserEntry)
                  ELSE threads' = threads /\ current' = current]_vars

\* C15 witness: a spawn has initialized a slot while other slots were
\* already taken.
C15_Witness ==
    /\ op.name = "spawn" /\ op.ret = "spawned"
    /\ op.slot \in Slots /\ op.slot > 1
    /\ threads[op.slot].state = "Ready"
    /\ threads[op.slot].entry \in AuxEntries
    /\ \E i \in Slots \ {current, op.slot} : threads[i].state = "Ready"

\* C16: the kill loop of a restart never calls kill_task on the slot that
\* is running nor on slot 0; the slots it forces to Available are exactly
\* the ones it calls kill_task on.
C16_KillPreconditions ==
    [][(Tick /\ ModeChanged(mode, comp_status)) =>
          LET K == KillCalls(RtNow, 0)
          IN  /\ current \notin K
              /\ 0 \notin K
              /\ KillOthers(RtNow, 0).threads =
                    [i \in Slots |-> IF i \in K THEN KillThread(threads[i])
                                               ELSE threads[i]]]_vars

\* C16 witness: a restart has run its kill loop while a user task was
\* alive, and the kernel still runs in slot 0.
C16_Witness ==
    /\ op.name = "tick" /\ op.ret = "restart"
    /\ current = 0 /\ threads[0].state = "Running"
    /\ threads[1].state = "Ready"
    /\ \A i \in Slots \ {0, 1} : threads[i].state = "Available"

\* C17: every pass of the kernel loop ends in exactly one yield: the body
\* always arrives at the yield, with or without a restart, the yield is
\* left only by calling yield_next, and the next pass starts only then.
C17_TickAlwaysYields ==
    [][/\ (kpc = "poll" /\ op'.name = "tick" /\ op' # op) => kpc' = "yield"
       /\ (kpc = "poll" /\ kpc' # "poll") => Tick
       /\ (kpc = "yield" /\ kpc' # "yield") =>
             (KernelYield /\ kpc' = "poll" /\ op'.name = "yield")]_vars

\* C17 witness: a pass of the kernel loop has made its yield.
C17_Witness ==
    /\ op.name = "yield" /\ op.slot = 0 /\ kpc = "poll"
    /\ comp_status # 0 /\ threads[1].entry = UserEntry

\* C18: a tick that polls the value it has recorded kills nothing and
\* spawns nothing: up to its yield the table, current and the recorded
\* value are as before.
C18_SameModeNoRestart ==
    [][(Tick /\ mode = comp_status) =>
          /\ UNCHANGED <<threads, current, borrow, fault, comp_status>>
          /\ op'.ret = "same"]_vars

\* C18 witness: a tick has polled the recorded value, with the oracle
\* untouched since the last poll, and is at its yield.
C18_Witness ==
    /\ op.name = "tick" /\ op.ret = "same" /\ ~op.chg
    /\ kpc = "yield" /\ mode = comp_status
    /\ FreshUserTask(threads[1])

\* C19: a tick records the value it has polled, so that the restart test
\* is false for that value afterwards; the recorded value changes nowhere
\* else while the loop runs, and a tick restarts the user task only when
\* the test is true.  Hence one observed change gives one restart.
C19_OneRestartPerChange ==
    [][/\ Tick => (comp_status' = mode /\ ~ModeChanged(mode', comp_status'))
       /\ (comp_status' # comp_status) => (Tick \/ Boot)
       /\ (Tick /\ op'.ret = "restart") => ModeChanged(mode, comp_status)]_vars

\* C19 witness: a tick has seen a change, restarted the user task and
\* recorded the new value.
C19_Witness ==
    /\ op.name = "tick" /\ op.ret = "restart" /\ op.chg
    /\ comp_status = mode /\ kpc = "yield"

\* C20: the kernel loop is permanent: if every thread keeps calling
\* yield_next, then whenever the kernel thread is due to poll the oracle
\* (at the top of its loop, or suspended in the yield that leads back to
\* it) it eventually does poll it.
C20_KernelPollsForever ==
    (kpc = "poll") ~> (kpc = "yield" \/ StoppedOutsideYield)

\* C21: a killed task never runs again.  A kill leaves its slot Available;
\* a yield_next never hands the processor to a slot that is not Ready; a
\* slot leaves Available only by a spawn, which makes it Ready with a fresh
\* frame that starts at the entry point; and a suspended position is only
\* ever saved for the slot that was running, in a yield.
C21_KilledNeverRuns ==
    [][/\ \A i \in Slots : Kill(i) => threads'[i].state = "Available"
       /\ (YieldStep /\ current' # current) => threads[current'].state = "Ready"
       /\ \A i \in Slots :
             /\ (threads[i].state = "Available" /\ threads'[i].state # "Available") =>
                   /\ SpawnStep \/ Boot \/ Tick
                   /\ threads'[i].state = "Ready"
                   /\ threads'[i].sp = "entry"
             /\ threads[i].state = "Available" => current' # i
             /\ threads'[i].sp # threads[i].sp =>
                   \/ threads'[i].sp = "entry" /\ threads'[i].state = "Ready"
                   \/ threads'[i].sp = "saved" /\ i = current /\ YieldStep]_vars

\* C21 witness: a yield has passed over the slot of a killed task and
\* switched to a Ready slot further on.
C21_Witness ==
    /\ op.name = "yield" /\ op.ret = "switch"
    /\ \E i \in Slots :
          /\ op.slot < i /\ i < current
          /\ threads[i].state = "Available"
          /\ threads[i].entry # NoEntry

\* The scan that starts after c and goes round the table meets a Running
\* slot other than c before it meets any Ready slot.
MeetsRunningFirst(th, c) ==
    \E r \in Slots \ {c} :
        /\ th[r].state = "Running"
        /\ \A j \in Slots \ {c} : Dist(c, j) < Dist(c, r) => th[j].state = "Available"

C23_ScanIndexInBounds ==
    /\ fault # "index"
    /\ \A p \in Slots : SpawnWrap(p + 1, MAX_THREADS) \in Slots

\* C24: in every reachable state the slot current designates is Running
\* and no other slot is, also right after a context switch.
C24_CurrentIsRunning ==
    /\ current \in Slots
    /\ \A i \in Slots : threads[i].state = "Running" <=> i = current

\* C24 witness: a context switch has just moved current from the kernel
\* slot to a spawned thread, whose caller is suspended inside the switch.
C24_Witness ==
    /\ op.name = "yield" /\ op.ret = "switch" /\ op.slot = 0
    /\ current # 0 /\ borrow = -1
    /\ threads[0].sp = "saved"

C26_ScansTerminate ==
    /\ GetNextPasses(threads, current, current, 0) <= MAX_THREADS
    /\ SpawnPasses(threads, current, current, 0) <= MAX_THREADS

\* C26 witness: a spawn has gone round a table without a free slot, back
\* to the caller's slot, in N passes.
C26_Witness ==
    /\ op.name = "spawn" /\ op.ret = "full"
    /\ OtherAvailable = {}
    /\ SpawnPasses(threads, current, current, 0) = MAX_THREADS

====
